---- MODULE Spec2Model ----
(***************************************************************************)
(* Model of backup.py: the incremental PostgreSQL backup to Cloudflare R2. *)
(*                                                                         *)
(* One invocation of run_backup is a process that walks through            *)
(*   load_env/load_state -> create_backup -> check_changes ->              *)
(*   (upload_to_r2 -> save_state | unlink) -> cleanup_local -> cleanup_r2. *)
(* The persisted state file, the dump directory, the bucket and the wall   *)
(* clock are shared by all invocations.                                    *)
(***************************************************************************)
EXTENDS Integers, Sequences, FiniteSets, TLC

VARIABLES
    now,        \* wall clock, datetime.now()
    env,        \* the configuration load_env() reads from the environment
    stateFile,  \* backup_state.json
    disk,       \* dumps/: file name -> [content, mtime]
    bucket,     \* the R2 bucket: its objects [key, lastModified] in key order
    pc,         \* per invocation: the position inside run_backup
    run,        \* per invocation: the locals of run_backup and what it did
    prev,       \* history: the record of the invocation that ran before
    appended,   \* history: every entry ever appended to state["backups"]
    lastSaver,  \* history: the invocation that called save_state last
    runs        \* number of invocations started

vars == <<now, env, stateFile, disk, bucket, pc, run, prev, appended, lastSaver, runs>>

-----------------------------------------------------------------------------
(* Bounds of the model *)

MaxRuns == 2        \* invocations per behaviour
MaxTime == 3        \* last value of the clock
NumContents == 2    \* distinct non-empty database dumps

(* Program constants *)

HistoryCap == 100   \* state["backups"][-100:]
ListMaxKeys == 1000 \* keys returned by one list_objects_v2 call

None == 0           \* Python's None: no digest, time or file name of the model is 0

Procs == {1, 2}     \* invocations of run_backup (the second one only when they overlap)

Contents == 1 .. NumContents    \* non-empty dump contents; 0 is the empty file
Empty == 0

(* Key prefixes as strings of characters: "backups", "backups2", "logs". *)
Backups == <<1>>
Backups2 == <<1, 2>>
Logs == <<3>>
Slash == 0

KeepLocalDays == {1}      \* values of KEEP_LOCAL_DAYS
KeepRemoteDays == {1, 2}  \* values of KEEP_REMOTE_DAYS
Elapsed == {0, 1, 2}       \* clock ticks between two invocations
RaisedAfter == {0, 1}     \* deletions done when a client call of the remote sweep raises

-----------------------------------------------------------------------------
(* Pure helpers *)

Min(a, b) == IF a < b THEN a ELSE b

Last(s, n) == SubSeq(s, Len(s) - Min(n, Len(s)) + 1, Len(s))

(* hashlib.md5 over the whole file: a digest determined by the bytes and  *)
(* different for different contents of the model; never None.              *)
calculate_hash(content) == 16 + content

(* all([...]) of the four R2 settings *)
R2Configured(config) == config.r2_configured

(* str.startswith on the prefix part of a key *)
StartsWith(s, p) == Len(p) <= Len(s) /\ SubSeq(s, 1, Len(p)) = p

(* lexicographic order of the strings dir + "/" *)
RECURSIVE SeqLess(_, _)
SeqLess(a, b) ==
    IF a = <<>> THEN b # <<>>
    ELSE IF b = <<>> THEN FALSE
    ELSE IF Head(a) # Head(b) THEN Head(a) < Head(b)
    ELSE SeqLess(Tail(a), Tail(b))

KeyLess(k1, k2) ==
    IF k1[1] = k2[1] THEN k1[2] < k2[2]
    ELSE SeqLess(k1[1] \o <<Slash>>, k2[1] \o <<Slash>>)

(* f"{config['r2_prefix']}/{file_path.name}" *)
R2Key(config, name) == <<config.r2_prefix, name>>

(* Faulty variant: the slice [:100], which keeps the oldest entries. *)
TrimBackupsKeepOldest(backups) == SubSeq(backups, 1, Min(Len(backups), HistoryCap))

(* state["backups"][-100:] *)
TrimBackups(backups) == Last(backups, HistoryCap)

(* load_state(): the file's record, or the default when there is no file *)
load_state(file) ==
    IF file.exists
    THEN [last_hash |-> file.last_hash, last_upload |-> file.last_upload,
          backups |-> file.backups]
    ELSE [last_hash |-> None, last_upload |-> None, backups |-> <<>>]

(* Variant that re-reads the file and adds its last entry to what is there. *)
save_state_merge(file, state) ==
    [exists |-> TRUE, last_hash |-> state.last_hash, last_upload |-> state.last_upload,
     backups |-> IF file.exists /\ Len(state.backups) > 0
                    /\ (Len(file.backups) = 0
                        \/ file.backups[Len(file.backups)] # state.backups[Len(state.backups)])
                 THEN TrimBackups(file.backups \o <<state.backups[Len(state.backups)]>>)
                 ELSE state.backups]

(* save_state(state): the file is opened with "w" and rewritten as a whole *)
save_state(file, state) ==
    [exists |-> TRUE, last_hash |-> state.last_hash, last_upload |-> state.last_upload,
     backups |-> state.backups]

(* Faulty variant: every dump counts as changed. *)
check_changes_always(last_hash, current_hash) == TRUE

(* check_changes: needs_upload *)
check_changes(last_hash, current_hash) == last_hash # current_hash

Range(s) == {s[i] : i \in 1 .. Len(s)}

(* list_objects_v2(Bucket, Prefix): the keys that start with the prefix,  *)
(* in key order, at most ListMaxKeys of them in the one response read.     *)
Matching(objs, prefix) == SelectSeq(objs, LAMBDA o : StartsWith(o.key[1], prefix))

ListObjects(objs, prefix) ==
    LET m == Matching(objs, prefix)
    IN  SubSeq(m, 1, Min(Len(m), ListMaxKeys))

(* obj_time < cutoff, cutoff = now - keep_remote_days *)
Expired(mtime, t, days) == mtime < t - days

File(content, mtime) == [content |-> content, mtime |-> mtime]

WriteFile(d, name, f) == [n \in DOMAIN d \cup {name} |-> IF n = name THEN f ELSE d[n]]

Unlink(d, name) == [n \in DOMAIN d \ {name} |-> d[n]]

(* upload_file: the object is stored under its key, replacing one of that key *)
PutObject(objs, key, t) ==
    SelectSeq(objs, LAMBDA o : KeyLess(o.key, key))
        \o <<[key |-> key, lastModified |-> t]>>
        \o SelectSeq(objs, LAMBDA o : KeyLess(key, o.key))

(* delete_object for each of `gone` *)
DeleteObjects(objs, gone) ==
    LET g == Range(gone) IN SelectSeq(objs, LAMBDA o : o \notin g)

-----------------------------------------------------------------------------
(* Initial states *)

NoStateFile == [exists |-> FALSE, last_hash |-> None, last_upload |-> None, backups |-> <<>>]

NoEntry == [file |-> None, hash |-> None, r2_key |-> <<>>, timestamp |-> None]

NoFiles == [n \in {} |-> File(Empty, 0)]

IdleRun ==
    [force |-> FALSE, config |-> [r2_configured |-> FALSE, r2_prefix |-> Backups,
                                   keep_local_days |-> 1, keep_remote_days |-> 1],
     state |-> load_state(NoStateFile), loaded |-> NoStateFile,
     dump |-> "none", returncode |-> 0, opened |-> None, backup_path |-> None, content |-> Empty,
     current_hash |-> None, needs_upload |-> FALSE,
     upload |-> "none", r2_key |-> <<>>,
     hashed |-> 0, uploadCalls |-> 0, transfers |-> 0, saved |-> FALSE,
     appends |-> 0, entry |-> NoEntry,
     unlinked |-> FALSE, sweptLocal |-> FALSE, sweptR2 |-> FALSE,
     r2Before |-> <<>>, r2Cutoff |-> 0, r2Deleted |-> <<>>, r2Outcome |-> "none", result |-> "none"]

(* What is kept of an invocation for the next one to be compared with. *)
Summary(r) ==
    [backup_path |-> r.backup_path, content |-> r.content,
     current_hash |-> r.current_hash, upload |-> r.upload, transfers |-> r.transfers]

ConfigsWith(days) ==
    [r2_configured : BOOLEAN, r2_prefix : {Backups},
     keep_local_days : KeepLocalDays, keep_remote_days : days]

(* A history of n entries written by n earlier invocations that uploaded. *)
OldEntry(i) ==
    [file |-> -i, hash |-> calculate_hash(1), r2_key |-> <<Backups, -i>>, timestamp |-> -i]

OldHistory(n) == [i \in 1 .. n |-> OldEntry(n + 1 - i)]

OldStateFile(n) ==
    [exists |-> TRUE, last_hash |-> calculate_hash(1), last_upload |-> -1,
     backups |-> OldHistory(n)]

Obj(dir, name, t) == [key |-> <<dir, name>>, lastModified |-> t]

(* Buckets that earlier invocations and other writers left behind: with  *)
(* objects under "logs/" and "backups2/", old and recent ones, and one     *)
(* with more expired backups than a single listing returns.                *)
SmallBuckets ==
    { <<Obj(Logs, -1, -1)>>,
      <<Obj(Backups, -1, 1), Obj(Backups2, -1, -1)>>,
      <<Obj(Backups, -2, -1), Obj(Backups, -1, 1), Obj(Logs, -1, 1)>> }

BigBucket == [i \in 1 .. ListMaxKeys + 1 |-> Obj(Backups, i - (ListMaxKeys + 2), -1)]

InitWith(files, buckets, configs) ==
    /\ now = 1
    /\ env \in configs
    /\ stateFile \in files
    /\ disk = NoFiles
    /\ bucket \in buckets
    /\ pc = [p \in Procs |-> "idle"]
    /\ run = [p \in Procs |-> IdleRun]
    /\ prev = Summary(IdleRun)
    /\ appended = stateFile.backups
    /\ lastSaver = 0
    /\ runs = 0

(* First installation: no state file, no dumps, an empty bucket. *)
Init == InitWith({NoStateFile}, {<<>>}, ConfigsWith({1}))

(* A state file whose history is one entry short of the cap, or at it. *)
InitHistory ==
    InitWith({OldStateFile(n) : n \in HistoryCap - 1 .. HistoryCap}, {<<>>}, ConfigsWith({1}))

(* A bucket that already holds objects. *)
InitR2 ==
    \/ InitWith({NoStateFile}, SmallBuckets, ConfigsWith(KeepRemoteDays))
    \/ InitWith({NoStateFile}, {BigBucket}, {c \in ConfigsWith({1}) : c.r2_configured})

-----------------------------------------------------------------------------
(* Actions *)

(* run_backup(force), lines 274-282: load_env() and load_state(); `dt` is *)
(* the time that passed since the last invocation started.                 *)
Begin(p, force, dt) ==
    /\ pc[p] \in {"idle", "done"}
    /\ runs < MaxRuns
    /\ now + dt <= MaxTime
    /\ now' = now + dt
    /\ runs' = runs + 1
    /\ prev' = IF pc[p] = "done" THEN Summary(run[p]) ELSE prev
    /\ run' = [run EXCEPT ![p] = [IdleRun EXCEPT
                   !.force = force, !.config = env,
                   !.state = load_state(stateFile), !.loaded = stateFile]]
    /\ pc' = [pc EXCEPT ![p] = "create"]
    /\ UNCHANGED <<env, stateFile, disk, bucket, appended, lastSaver>>

DumpKinds == {"exit", "timeout", "exception", "open_error"}

st_size(content) == IF content = Empty THEN 0 ELSE 1

(* Faulty variant: the size of the output is not looked at. *)
DumpOkNoSize(kind, returncode, exists, size) == kind = "exit" /\ returncode = 0 /\ exists

(* line 121: returncode == 0 and backup_path.exists() and st_size > 0,    *)
(* reached only when subprocess.run returned                               *)
DumpOk(kind, returncode, exists, size) ==
    kind = "exit" /\ returncode = 0 /\ exists /\ size > 0

(* create_backup(config), lines 89-136, and the early return of lines     *)
(* 286-288. `kind` says how the dump command ended: it exited with         *)
(* `returncode`, subprocess.run raised TimeoutExpired or another           *)
(* exception, or open() itself raised; `content` is what reached the file. *)
create_backup(p, kind, returncode, content) ==
    /\ pc[p] = "create"
    /\ kind = "exit" /\ returncode = 0 => content \in {Empty} \cup Contents
    /\ kind # "exit" => returncode = 1
    /\ kind \in {"exception", "open_error"} => content = Empty
    /\ LET name == now
           opened == kind # "open_error"
           written == IF opened THEN WriteFile(disk, name, File(content, now)) ELSE disk
           ok == DumpOk(kind, returncode, name \in DOMAIN written, st_size(content))
       IN  /\ disk' = CASE kind = "exit" /\ ok -> written
                        [] kind = "exit" /\ ~ok -> Unlink(written, name)
                        [] kind \in {"timeout", "exception"} -> written
                        [] kind = "open_error" -> disk
           /\ run' = [run EXCEPT ![p].dump = kind, ![p].returncode = returncode,
                                 ![p].opened = IF opened THEN name ELSE None,
                                 ![p].content = IF ok THEN content ELSE Empty,
                                 ![p].backup_path = IF ok THEN name ELSE None,
                                 ![p].result = IF ok THEN "none" ELSE "False"]
           /\ pc' = [pc EXCEPT ![p] = IF ok THEN "check" ELSE "done"]
    /\ UNCHANGED <<now, env, stateFile, bucket, prev, appended, lastSaver, runs>>

(* Faulty variant: the force flag is ignored. *)
UploadBranchNoForce(needs_upload, force) == needs_upload

(* line 293: if needs_upload or force *)
UploadBranch(needs_upload, force) == needs_upload \/ force

(* check_changes(backup_path, state), lines 172-181, and the branch of    *)
(* line 293. calculate_hash opens the file: were it gone, the invocation   *)
(* would end in an uncaught FileNotFoundError and go no further.           *)
CheckChanges(p) ==
    /\ pc[p] = "check"
    /\ run[p].backup_path \in DOMAIN disk
    /\ LET h == calculate_hash(disk[run[p].backup_path].content)
           needs == check_changes(run[p].state.last_hash, h)
       IN  /\ run' = [run EXCEPT ![p].current_hash = h, ![p].needs_upload = needs,
                                 ![p].hashed = @ + 1]
           /\ pc' = [pc EXCEPT ![p] = IF UploadBranch(needs, run[p].force)
                                      THEN "upload" ELSE "skip"]
    /\ UNCHANGED <<now, env, stateFile, disk, bucket, prev, appended, lastSaver, runs>>

UploadOutcomes == {"ok", "failed"}

(* upload_to_r2(config, file_path), lines 139-169 *)
upload_to_r2(p, outcome) ==
    /\ pc[p] = "upload"
    /\ LET configured == R2Configured(run[p].config)
           key == R2Key(run[p].config, run[p].backup_path)
       IN  /\ ~configured => outcome = "failed"
           /\ bucket' = IF configured /\ outcome = "ok"
                        THEN PutObject(bucket, key, now) ELSE bucket
           /\ run' = [run EXCEPT
                  ![p].uploadCalls = @ + 1,
                  ![p].transfers = IF configured THEN @ + 1 ELSE @,
                  ![p].upload = IF ~configured THEN "not_configured" ELSE outcome,
                  ![p].r2_key = IF configured /\ outcome = "ok" THEN key ELSE <<>>]
    /\ pc' = [pc EXCEPT ![p] = "persist"]
    /\ UNCHANGED <<now, env, stateFile, disk, prev, appended, lastSaver, runs>>

NewEntry(p) ==
    [file |-> run[p].backup_path, hash |-> run[p].current_hash,
     r2_key |-> run[p].r2_key, timestamp |-> now]

(* Faulty variant: an entry is appended whatever upload_to_r2 returned. *)
AppendAlways(key) == TRUE

(* line 299: if r2_key *)
KeyReturned(key) == key # <<>>

(* lines 296-309: the state record is updated and saved *)
Persist(p) ==
    /\ pc[p] = "persist"
    /\ LET got == KeyReturned(run[p].r2_key)
           s == [last_hash |-> run[p].current_hash, last_upload |-> now,
                 backups |-> IF got THEN TrimBackups(Append(run[p].state.backups, NewEntry(p)))
                             ELSE run[p].state.backups]
       IN  /\ run' = [run EXCEPT ![p].state = s, ![p].saved = TRUE,
                                 ![p].appends = IF got THEN @ + 1 ELSE @,
                                 ![p].entry = NewEntry(p)]
           /\ stateFile' = save_state(stateFile, s)
           /\ appended' = IF got THEN Append(appended, NewEntry(p)) ELSE appended
    /\ lastSaver' = p
    /\ pc' = [pc EXCEPT ![p] = "cleanup_local"]
    /\ UNCHANGED <<now, env, disk, bucket, prev, runs>>

(* Faulty variant: the else branch returns at once. *)
AfterSkipReturn == "done"

(* lines 312-316: after the else branch the function goes on to the cleanup *)
AfterSkip == "cleanup_local"

(* lines 310-312: backup_path.unlink(); the file is there unless another  *)
(* invocation removed it, and then unlink raises and the invocation ends.  *)
Skip(p) ==
    /\ pc[p] = "skip"
    /\ run[p].backup_path \in DOMAIN disk
    /\ disk' = Unlink(disk, run[p].backup_path)
    /\ run' = [run EXCEPT ![p].unlinked = TRUE]
    /\ pc' = [pc EXCEPT ![p] = AfterSkip]
    /\ UNCHANGED <<now, env, stateFile, bucket, prev, appended, lastSaver, runs>>

(* cleanup_local(config), lines 184-199 *)
cleanup_local(p) ==
    /\ pc[p] = "cleanup_local"
    /\ LET old == {n \in DOMAIN disk :
                      Expired(disk[n].mtime, now, run[p].config.keep_local_days)}
       IN  disk' = [n \in DOMAIN disk \ old |-> disk[n]]
    /\ run' = [run EXCEPT ![p].sweptLocal = TRUE]
    /\ pc' = [pc EXCEPT ![p] = "cleanup_r2"]
    /\ UNCHANGED <<now, env, stateFile, bucket, prev, appended, lastSaver, runs>>

(* cleanup_r2(config), lines 202-227, and the return of line 319.         *)
(* With outcome "error" a client call raised and the except clause ended   *)
(* the sweep: the listing (k = 0), or the deletion that followed k         *)
(* deletions.                                                              *)
cleanup_r2(p, outcome, k) ==
    /\ pc[p] = "cleanup_r2"
    /\ LET configured == R2Configured(run[p].config)
           cutoff == now - run[p].config.keep_remote_days
           listed == ListObjects(bucket, run[p].config.r2_prefix)
           old == SelectSeq(listed, LAMBDA o :
                      Expired(o.lastModified, now, run[p].config.keep_remote_days))
           done == IF ~configured THEN <<>>
                   ELSE IF outcome = "ok" THEN old
                   ELSE SubSeq(old, 1, Min(k, Len(old)))
       IN  /\ ~configured \/ outcome = "ok" => k = 0
           /\ bucket' = DeleteObjects(bucket, done)
           /\ run' = [run EXCEPT ![p].sweptR2 = TRUE, ![p].r2Before = bucket,
                                 ![p].r2Cutoff = cutoff, ![p].r2Deleted = done,
                                 ![p].r2Outcome = IF configured THEN outcome ELSE "not_configured",
                                 ![p].result = "True"]
    /\ ~R2Configured(run[p].config) => outcome = "ok"
    /\ pc' = [pc EXCEPT ![p] = "done"]
    /\ UNCHANGED <<now, env, stateFile, disk, prev, appended, lastSaver, runs>>

(* The steps of an invocation after its start. *)
Step(p) ==
    \/ \E kind \in DumpKinds, returncode \in {0, 1}, content \in {Empty} \cup Contents :
          create_backup(p, kind, returncode, content)
    \/ CheckChanges(p)
    \/ \E outcome \in UploadOutcomes : upload_to_r2(p, outcome)
    \/ Persist(p)
    \/ Skip(p)
    \/ cleanup_local(p)
    \/ \E outcome \in {"ok", "error"}, k \in RaisedAfter : cleanup_r2(p, outcome, k)

(* One invocation at a time, as the scheduler is assumed to run them: the *)
(* next one starts when the one before has returned.                       *)
Next ==
    \/ \E force \in BOOLEAN, dt \in Elapsed : Begin(1, force, dt)
    \/ Step(1)

(* Two invocations, each a process of its own, that may overlap in time. *)
NextConc ==
    \E p \in Procs :
        \/ \E force \in BOOLEAN, dt \in Elapsed : pc[p] = "idle" /\ Begin(p, force, dt)
        \/ Step(p)

Spec == Init /\ [][Next]_vars

SpecHistory == InitHistory /\ [][Next]_vars

SpecR2 == InitR2 /\ [][Next]_vars

SpecConc == Init /\ [][NextConc]_vars

-----------------------------------------------------------------------------
(* Properties. In Spec, SpecHistory and SpecR2 the invocations are those  *)
(* of process 1, one after the other.                                      *)

Returned(p) == pc[p] = "done"

(* The dump command did not meet the success criteria of create_backup. *)
ProductionFailed(r) == ~(r.dump = "exit" /\ r.returncode = 0 /\ r.content # Empty)

TookUploadBranch(r) == r.upload # "none"

AppendedEntry(r) ==
    /\ r.appends = 1
    /\ Len(stateFile.backups) > 0
    /\ stateFile.backups[Len(stateFile.backups)] = r.entry

(* C1: when the invocation before took the upload branch and this        *)
(* unforced invocation dumped the same bytes, this invocation computed the *)
(* same digest, never called the upload, unlinked its dump and left the    *)
(* state file as it found it.                                              *)
C1_UnchangedDumpSkipped ==
    (/\ Returned(1)
     /\ TookUploadBranch(prev)
     /\ ~run[1].force
     /\ ~ProductionFailed(run[1])
     /\ run[1].content = prev.content)
    => /\ run[1].current_hash = prev.current_hash
       /\ run[1].uploadCalls = 0
       /\ run[1].unlinked
       /\ run[1].opened \notin DOMAIN disk
       /\ ~run[1].saved
       /\ stateFile = run[1].loaded

C1_Witness ==
    /\ Returned(1)
    /\ TookUploadBranch(prev)
    /\ ~run[1].force
    /\ ~ProductionFailed(run[1])
    /\ run[1].content = prev.content
    /\ run[1].unlinked

(* C2 as stated: every forced invocation whose dump succeeded appended an *)
(* entry and set last_hash to the new digest, whatever the upload did.     *)
C2_ForcedAlwaysAppends ==
    (Returned(1) /\ run[1].force /\ ~ProductionFailed(run[1]))
    => /\ stateFile.last_hash = run[1].current_hash
       /\ AppendedEntry(run[1])

(* C2 amended: every forced invocation whose dump succeeded saved the     *)
(* state with last_hash set to the new digest, also when the digest was    *)
(* the recorded one and whatever the upload did; it appended an entry      *)
(* exactly when the upload returned a key, and left the history as loaded  *)
(* otherwise.                                                              *)
C2_ForcedSavesHash ==
    (Returned(1) /\ run[1].force /\ ~ProductionFailed(run[1]))
    => /\ run[1].saved
       /\ stateFile.last_hash = run[1].current_hash
       /\ AppendedEntry(run[1]) <=> run[1].upload = "ok"
       /\ run[1].upload # "ok" => stateFile.backups = run[1].loaded.backups

C2_Witness ==
    /\ Returned(1)
    /\ run[1].force
    /\ run[1].current_hash = run[1].loaded.last_hash
    /\ run[1].upload \in {"failed", "not_configured"}
    /\ run[1].saved

(* C3: when create_backup failed, the dump file it opened is not on disk *)
(* when it returns.                                                        *)
C3_FailedDumpRemoved ==
    (Returned(1) /\ ProductionFailed(run[1]) /\ run[1].opened # None)
    => run[1].opened \notin DOMAIN disk

(* C4: run_backup returns False exactly when dump production failed, and  *)
(* then it computed no digest, called no upload, did not save, and the     *)
(* state file is what it was at the start; every other invocation returns  *)
(* True.                                                                   *)
C4_FalseIffDumpFailed ==
    Returned(1)
    => /\ run[1].result \in {"True", "False"}
       /\ run[1].result = "False" <=> ProductionFailed(run[1])
       /\ ProductionFailed(run[1]) =>
             /\ run[1].hashed = 0
             /\ run[1].uploadCalls = 0
             /\ ~run[1].saved
             /\ stateFile = run[1].loaded
       /\ run[1].upload = "failed" => run[1].result = "True"

C4_Witness ==
    /\ Returned(1)
    /\ ProductionFailed(run[1])
    /\ run[1].result = "False"
    /\ stateFile.exists

(* C5: the persisted history has at most 100 entries and is the most      *)
(* recent entries ever appended, in the order they were appended.          *)
C5_HistoryBounded ==
    /\ Len(stateFile.backups) <= HistoryCap
    /\ stateFile.backups = Last(appended, HistoryCap)

C5_Witness ==
    /\ Returned(1)
    /\ run[1].appends = 1
    /\ Len(appended) > HistoryCap
    /\ Len(stateFile.backups) = HistoryCap

(* C6 as stated: every invocation that returned ran both sweeps. *)
C6_AlwaysSweeps == Returned(1) => run[1].sweptLocal /\ run[1].sweptR2

(* C6 amended: an invocation ran the local and the remote sweep, as its   *)
(* last steps, exactly when its dump production succeeded, whether it      *)
(* uploaded, failed to upload or skipped; one whose dump failed ran        *)
(* neither.                                                                *)
C6_SweepsIffDumped ==
    Returned(1)
    => /\ ~ProductionFailed(run[1]) => run[1].sweptLocal /\ run[1].sweptR2
       /\ ProductionFailed(run[1]) => ~run[1].sweptLocal /\ ~run[1].sweptR2

C6_Witness ==
    /\ Returned(1)
    /\ run[1].unlinked
    /\ run[1].sweptLocal
    /\ run[1].sweptR2

(* C7: when the remote is configured and no client call raised, the       *)
(* objects cleanup_r2 deleted are exactly the objects whose key starts     *)
(* with the configured prefix and whose last-modified time is before the   *)
(* cutoff.                                                                 *)
C7_SweepDeletesExactlyExpired ==
    (Returned(1) /\ run[1].r2Outcome = "ok")
    => Range(run[1].r2Deleted) =
          {o \in Range(run[1].r2Before) :
              /\ StartsWith(o.key[1], run[1].config.r2_prefix)
              /\ o.lastModified < run[1].r2Cutoff}

(* C8: an invocation that took the upload branch left last_hash at the    *)
(* new digest and last_upload at the current time, whatever the upload     *)
(* did; it appended an entry exactly when the upload returned a key, and   *)
(* no entry of the history has an empty key.                               *)
C8_UploadBranchUpdatesState ==
    /\ (/\ Returned(1)
        /\ ~ProductionFailed(run[1])
        /\ (run[1].force \/ run[1].current_hash # run[1].loaded.last_hash))
       => /\ run[1].saved
          /\ stateFile.last_hash = run[1].current_hash
          /\ stateFile.last_upload = now
          /\ AppendedEntry(run[1]) <=> run[1].upload = "ok"
          /\ run[1].appends = 1 <=> run[1].upload = "ok"
    /\ \A i \in 1 .. Len(stateFile.backups) : stateFile.backups[i].r2_key # <<>>

C8_Witness ==
    /\ Returned(1)
    /\ ~run[1].force
    /\ run[1].upload = "failed"
    /\ stateFile.last_hash = run[1].current_hash
    /\ run[1].appends = 0

(* C9: after an invocation whose upload failed (and was tried once), the  *)
(* next unforced invocation with the remote configured calls the upload    *)
(* for its dump.                                                           *)
C9_FailedUploadRetriedNextRun ==
    (/\ Returned(1)
     /\ prev.upload = "failed"
     /\ ~run[1].force
     /\ R2Configured(run[1].config)
     /\ ~ProductionFailed(run[1]))
    => /\ prev.transfers = 1
       /\ run[1].transfers = 1

(* C10: the state file is what the invocation that saved last computed    *)
(* from the record it loaded at its start: the history it loaded plus its  *)
(* own entry, and its own digest. Nothing another invocation saved after   *)
(* that load is kept.                                                      *)
C10_LastWriterWins ==
    \A q \in Procs :
        (lastSaver = q /\ run[q].saved)
        => /\ stateFile.last_hash = run[q].current_hash
           /\ stateFile.backups =
                 IF run[q].appends = 1
                 THEN Last(Append(run[q].loaded.backups, run[q].entry), HistoryCap)
                 ELSE run[q].loaded.backups

C10_Witness ==
    \E p, q \in Procs :
        /\ p # q
        /\ Returned(p) /\ Returned(q)
        /\ lastSaver = q
        /\ run[p].saved /\ run[p].appends = 1
        /\ run[p].entry \notin Range(stateFile.backups)
        /\ stateFile.last_hash # run[p].current_hash

====
